---------------------------- MODULE Spec2Model ----------------------------
(***************************************************************************)
(* The $percentile / $median accumulators of                               *)
(* mongo/db/pipeline/accumulator_percentile.cpp.                           *)
(*                                                                         *)
(* Doubles are fixed-point numbers in tenths: the double 1.8 is the        *)
(* integer 18, a fraction p is the integer 10*p in 0..10.  Every input     *)
(* sample is a whole number, so the interpolations of the continuous       *)
(* method are exact in tenths.                                             *)
(***************************************************************************)
EXTENDS Integers, Sequences, FiniteSets, TLC

(* ------------------------------ bounds -------------------------------- *)

\* samples are the doubles 0.0, 1.0, .., MaxVal
MaxVal == 1
\* an algorithm instance holds at most this many samples
MaxSamples == 2
\* a peer's partial state carries at most this many samples
MaxPartialLen == 2
\* partials merged into one accumulator between two resets
MaxMerges == 2
MaxWideVal == 2
MaxWideSamples == 3
MaxPLen == 2

(* --------------------------- program constants ------------------------ *)

\* one unit of the fixed-point representation: fractions are p * Scale
Scale == 10
\* sizeof(*this) of an AccumulatorPercentile
SizeofAccumulator == 96
\* internalQueryMaxPercentileAccumulatorBytes
internalQueryMaxPercentileAccumulatorBytes == 1000
\* sizeof of an empty algorithm object
AlgoBaseBytes == 32
\* sizeof(double), the cost of one retained sample
DoubleBytes == 8
\* the cost of one centroid of the sketch (a mean and a weight)
CentroidBytes == 16
\* the sketch keeps at most this many centroids
MaxCentroids == 2

Methods == {"approximate", "discrete", "continuous"}

ExactMethods == {"discrete", "continuous"}

(* ------------------------------- Value -------------------------------- *)

\* the BSON types of the test inputs that are not numbers
NonNumericKinds == {"string", "missing", "null", "array", "date", "nan"}

Double(x) == [kind |-> "double", val |-> x]

BSONNULL == [kind |-> "null", val |-> 0]

NumericInputs == {Double(v * Scale) : v \in 0..MaxVal}

NonNumericInputs == {[kind |-> k, val |-> 0] : k \in NonNumericKinds}

InputValues == NumericInputs \cup NonNumericInputs

\* Value::numeric()
numeric(v) == v.kind = "double"

\* Value::coerceToDouble()
coerceToDouble(v) == v.val

(* ----------------------- small sequence helpers ----------------------- *)

\* s with x put at its place in the ascending order (s is ascending)
InsertSorted(s, x) ==
    LET k == Cardinality({i \in 1..Len(s) : s[i] <= x})
    IN  SubSeq(s, 1, k) \o <<x>> \o SubSeq(s, k + 1, Len(s))

RECURSIVE SortAsc(_)
SortAsc(s) == IF s = <<>> THEN <<>> ELSE InsertSorted(SortAsc(Tail(s)), Head(s))

RECURSIVE FlattenSeq(_)
FlattenSeq(ss) == IF ss = <<>> THEN <<>> ELSE Head(ss) \o FlattenSeq(Tail(ss))

RECURSIVE SumWeights(_)
SumWeights(cs) == IF cs = <<>> THEN 0 ELSE Head(cs).weight + SumWeights(Tail(cs))

\* all sequences over S of length at most n
RECURSIVE SeqsUpTo(_, _)
SeqsUpTo(S, n) ==
    IF n = 0 THEN {<<>>}
    ELSE LET shorter == SeqsUpTo(S, n - 1)
         IN  shorter \cup {Append(s, x) : s \in {t \in shorter : Len(t) = n - 1}, x \in S}


(* --------------------- PercentileAlgorithm (spec 4.1) ----------------- *)
(* percentile_algo*.h/.cpp are not part of the sources at hand; the three  *)
(* variants follow section 4.1 of the specification.  An algorithm is a    *)
(* record [method, buf]: for the exact methods buf is the growable buffer  *)
(* of retained samples in arrival order, for the sketch it is the list of  *)
(* centroids [sum, weight] in ascending order of their means.              *)

Centroid(s, w) == [sum |-> s, weight |-> w]

\* c1's mean is at most c2's mean
MeanLeq(c1, c2) == c1.sum * c2.weight <= c2.sum * c1.weight

InsertCentroid(cs, c) ==
    LET k == Cardinality({i \in 1..Len(cs) : MeanLeq(cs[i], c)})
    IN  SubSeq(cs, 1, k) \o <<c>> \o SubSeq(cs, k + 1, Len(cs))

\* the sketch keeps a bounded number of centroids: the two lowest are fused
Compress(cs) ==
    IF Len(cs) <= MaxCentroids THEN cs
    ELSE <<Centroid(cs[1].sum + cs[2].sum, cs[1].weight + cs[2].weight)>>
             \o SubSeq(cs, 3, Len(cs))

RECURSIVE InsertCentroids(_, _)
InsertCentroids(cs, new) ==
    IF new = <<>> THEN cs
    ELSE InsertCentroids(Compress(InsertCentroid(cs, Head(new))), Tail(new))

\* the number of samples the algorithm has incorporated
Count(algo) ==
    IF algo.method = "approximate" THEN SumWeights(algo.buf) ELSE Len(algo.buf)

\* PercentileAlgorithm::incorporate
incorporate(algo, x) ==
    IF algo.method = "approximate"
    THEN [algo EXCEPT !.buf = Compress(InsertCentroid(@, Centroid(x, 1)))]
    ELSE [algo EXCEPT !.buf = Append(@, x)]

\* PercentileAlgorithm::memUsageBytes
memUsageBytes(algo) ==
    IF algo.method = "approximate"
    THEN AlgoBaseBytes + Len(algo.buf) * CentroidBytes
    ELSE AlgoBaseBytes + Len(algo.buf) * DoubleBytes

\* the 1-indexed rank ceil(p * n), clamped to [1, n]
NearestRank(p, n) ==
    LET r == (p * n + Scale - 1) \div Scale
    IN  IF r < 1 THEN 1 ELSE IF r > n THEN n ELSE r

\* DiscreteExact: the value at the nearest rank of the sorted samples
DiscretePercentile(sorted, p) == sorted[NearestRank(p, Len(sorted))]

\* ContinuousExact: linear interpolation at the 0-indexed rank p * (n - 1)
ContinuousPercentile(sorted, p) ==
    LET n    == Len(sorted)
        rank == p * (n - 1)
        lo   == rank \div Scale
        frac == rank % Scale
        hi   == IF lo + 1 < n THEN lo + 1 ELSE lo
    IN  sorted[lo + 1] + (frac * (sorted[hi + 1] - sorted[lo + 1])) \div Scale

\* ApproximateSketch: the mean of the centroid that covers the nearest rank
SketchPercentile(cs, p) ==
    LET r == NearestRank(p, SumWeights(cs))
        k == CHOOSE i \in 1..Len(cs) :
                 /\ SumWeights(SubSeq(cs, 1, i)) >= r
                 /\ SumWeights(SubSeq(cs, 1, i - 1)) < r
    IN  cs[k].sum \div cs[k].weight

\* PercentileAlgorithm::computePercentiles: one value per fraction, in the
\* order of the fractions; no value at all while nothing was incorporated
computePercentiles(algo, ps) ==
    IF algo.buf = <<>> THEN <<>>
    ELSE [i \in 1..Len(ps) |->
            CASE algo.method = "discrete" ->
                     DiscretePercentile(SortAsc(algo.buf), ps[i])
              [] algo.method = "continuous" ->
                     ContinuousPercentile(SortAsc(algo.buf), ps[i])
              [] OTHER -> SketchPercentile(algo.buf, ps[i])]

\* the algorithm classes that implement PartialPercentile<Value>
PartialPercentileKinds == {"approximate", "discrete", "continuous"}

\* dynamic_cast<PartialPercentile<Value>*>(_algo.get()) gives a pointer to
\* the algorithm, and not nullptr
isPartialPercentile(algo) == algo.method \in PartialPercentileKinds

\* PartialPercentile<Value>::serialize: an array of doubles; the exact
\* methods write their samples, the sketch writes (sum, weight) pairs
serialize(algo) ==
    IF algo.method = "approximate"
    THEN [i \in 1..(2 * Len(algo.buf)) |->
            IF i % 2 = 1 THEN Double(algo.buf[(i + 1) \div 2].sum)
            ELSE Double(algo.buf[i \div 2].weight * Scale)]
    ELSE [i \in 1..Len(algo.buf) |-> Double(algo.buf[i])]

\* PartialPercentile<Value>::combine: the exact methods concatenate the
\* peer's samples to their own, the sketch takes in the peer's centroids
combine(algo, partial) ==
    IF algo.method = "approximate"
    THEN [algo EXCEPT !.buf = InsertCentroids(@,
             [i \in 1..(Len(partial) \div 2) |->
                 Centroid(coerceToDouble(partial[2 * i - 1]),
                          coerceToDouble(partial[2 * i]) \div Scale)])]
    ELSE [algo EXCEPT !.buf =
             @ \o [i \in 1..Len(partial) |-> coerceToDouble(partial[i])]]

\* MemoryUsageTracker::withinMemoryLimit
withinMemoryLimit(tracker) ==
    tracker.currentMemoryBytes <= tracker.maxAllowedMemoryUsageBytes

\* MemoryUsageTracker::set
TrackerSet(tracker, bytes) == [tracker EXCEPT !.currentMemoryBytes = bytes]

(* ------------------------ AccumulatorPercentile ----------------------- *)

\* boost::optional<int>
None == [has |-> FALSE, value |-> 0]

Some(x) == [has |-> TRUE, value |-> x]

value_or(opt, default) == IF opt.has THEN opt.value ELSE default

\* as createPercentileAlgorithm, but kApproximate makes a sketch of a class
\* without the PartialPercentile interface
createPercentileAlgorithmPlainSketch(method) ==
    [method |-> IF method = "approximate" THEN "plain sketch" ELSE method,
     buf |-> <<>>]

\* as createPercentileAlgorithm, but kDiscrete makes a ContinuousPercentile
createPercentileAlgorithmDiscreteInterpolates(method) ==
    [method |-> IF method = "discrete" THEN "continuous" ELSE method,
     buf |-> <<>>]

\* as createPercentileAlgorithm, but kContinuous makes a DiscretePercentile
createPercentileAlgorithmContinuousRanks(method) ==
    [method |-> IF method = "continuous" THEN "discrete" ELSE method,
     buf |-> <<>>]

\* createPercentileAlgorithm: a fresh, empty algorithm of the method
createPercentileAlgorithm(method) == [method |-> method, buf |-> <<>>]

\* AccumulatorPercentile::AccumulatorPercentile
AccumulatorPercentile(ps, method, maxMemoryUsageBytes) ==
    LET algo == createPercentileAlgorithm(method)
    IN  [percentiles |-> ps,
         algo |-> algo,
         method |-> method,
         memUsageTracker |->
             [currentMemoryBytes |-> SizeofAccumulator + memUsageBytes(algo),
              maxAllowedMemoryUsageBytes |->
                  value_or(maxMemoryUsageBytes,
                           internalQueryMaxPercentileAccumulatorBytes)]]

\* what a call hands back: the object after the call, and either the
\* returned value or the thrown error with the two numbers of its message
Returned(acc, value) ==
    [acc |-> acc, status |-> "ok", value |-> value, used |-> 0, limit |-> 0]

Thrown(acc, code, used, limit) ==
    [acc |-> acc, status |-> code, value |-> <<>>, used |-> used, limit |-> limit]

\* as uassertWithinMemoryLimit, but the message names the server-wide limit
\* instead of the limit of this instance
uassertReportsServerLimit(acc) ==
    IF withinMemoryLimit(acc.memUsageTracker)
    THEN Returned(acc, <<>>)
    ELSE Thrown(acc, "ExceededMemoryLimit",
                acc.memUsageTracker.currentMemoryBytes,
                internalQueryMaxPercentileAccumulatorBytes)

\* uassert(ErrorCodes::ExceededMemoryLimit, "... Used: {0} bytes. Memory
\* limit: {1} bytes", _memUsageTracker.withinMemoryLimit())
uassertWithinMemoryLimit(acc) ==
    IF withinMemoryLimit(acc.memUsageTracker)
    THEN Returned(acc, <<>>)
    ELSE Thrown(acc, "ExceededMemoryLimit",
                acc.memUsageTracker.currentMemoryBytes,
                acc.memUsageTracker.maxAllowedMemoryUsageBytes)

\* the shared tail of the variants of processInternal below
TrackThenAssert(changed) ==
    uassertWithinMemoryLimit(
        [changed EXCEPT !.memUsageTracker =
            TrackerSet(@, SizeofAccumulator + memUsageBytes(changed.algo))])

\* as processInternal, but a call that fails on the limit leaves the
\* accumulator as it was before the call
processInternalRollsBack(acc, input, merging) ==
    LET changed ==
            IF merging THEN [acc EXCEPT !.algo = combine(@, input)]
            ELSE IF ~numeric(input) THEN acc
            ELSE [acc EXCEPT !.algo = incorporate(@, coerceToDouble(input))]
        out == TrackThenAssert(changed)
    IN  IF ~merging /\ ~numeric(input) THEN Returned(acc, <<>>)
        ELSE IF out.status = "ok" THEN out
        ELSE Thrown(acc, out.status, out.used, out.limit)

\* as processInternal, but an accumulator over its limit falls back to an
\* empty approximate sketch instead of failing
processInternalDegrades(acc, input, merging) ==
    LET changed ==
            IF merging THEN [acc EXCEPT !.algo = combine(@, input)]
            ELSE IF ~numeric(input) THEN acc
            ELSE [acc EXCEPT !.algo = incorporate(@, coerceToDouble(input))]
        tracked ==
            [changed EXCEPT !.memUsageTracker =
                TrackerSet(@, SizeofAccumulator + memUsageBytes(changed.algo))]
    IN  IF ~merging /\ ~numeric(input) THEN Returned(acc, <<>>)
        ELSE IF withinMemoryLimit(tracked.memUsageTracker)
        THEN Returned(tracked, <<>>)
        ELSE Returned([tracked EXCEPT
                          !.method = "approximate",
                          !.algo = createPercentileAlgorithm("approximate")],
                      <<>>)

\* as processInternal, but a zero is taken for a missing value and dropped
processInternalSkipsZero(acc, input, merging) ==
    IF merging
    THEN TrackThenAssert([acc EXCEPT !.algo = combine(@, input)])
    ELSE IF ~numeric(input) \/ coerceToDouble(input) = 0
    THEN Returned(acc, <<>>)
    ELSE TrackThenAssert(
             [acc EXCEPT !.algo = incorporate(@, coerceToDouble(input))])

\* as processInternal, without the numeric() test: every value is coerced
processInternalCoercesAll(acc, input, merging) ==
    IF merging
    THEN TrackThenAssert([acc EXCEPT !.algo = combine(@, input)])
    ELSE TrackThenAssert([acc EXCEPT !.algo = incorporate(@, coerceToDouble(input))])

\* as processInternal, but a NaN passes the numeric() test
processInternalTakesNaN(acc, input, merging) ==
    IF merging
    THEN TrackThenAssert([acc EXCEPT !.algo = combine(@, input)])
    ELSE IF ~numeric(input) /\ input.kind # "nan"
         THEN Returned(acc, <<>>)
         ELSE TrackThenAssert([acc EXCEPT !.algo = incorporate(@, coerceToDouble(input))])

\* as processInternal, but ingest asserts the limit before it recomputes
\* the usage
processInternalAssertsFirst(acc, input, merging) ==
    IF merging
    THEN TrackThenAssert([acc EXCEPT !.algo = combine(@, input)])
    ELSE IF ~numeric(input)
         THEN Returned(acc, <<>>)
         ELSE LET incorporated ==
                      [acc EXCEPT !.algo = incorporate(@, coerceToDouble(input))]
                  tracked ==
                      [incorporated EXCEPT !.memUsageTracker =
                          TrackerSet(@, SizeofAccumulator
                                        + memUsageBytes(incorporated.algo))]
                  out == uassertWithinMemoryLimit(incorporated)
              IN  [out EXCEPT !.acc = tracked]

\* as processInternal, but the merging branch returns without the uassert
processInternalMergeUnchecked(acc, input, merging) ==
    IF merging
    THEN LET combined == [acc EXCEPT !.algo = combine(@, input)]
         IN  Returned([combined EXCEPT !.memUsageTracker =
                          TrackerSet(@, SizeofAccumulator
                                        + memUsageBytes(combined.algo))], <<>>)
    ELSE IF ~numeric(input)
         THEN Returned(acc, <<>>)
         ELSE TrackThenAssert([acc EXCEPT !.algo = incorporate(@, coerceToDouble(input))])

\* as processInternal, but the numeric() test comes before the merging
\* branch: a partial state, an array, is dropped
processInternalNumericFirst(acc, input, merging) ==
    IF merging
    THEN Returned(acc, <<>>)
    ELSE IF ~numeric(input)
         THEN Returned(acc, <<>>)
         ELSE TrackThenAssert([acc EXCEPT !.algo = incorporate(@, coerceToDouble(input))])

\* as processInternal, but the merging branch combines into a new algorithm:
\* only the last partial state is kept
processInternalMergeReplaces(acc, input, merging) ==
    IF merging
    THEN TrackThenAssert([acc EXCEPT !.algo =
                             combine(createPercentileAlgorithm(acc.method), input)])
    ELSE IF ~numeric(input)
         THEN Returned(acc, <<>>)
         ELSE TrackThenAssert([acc EXCEPT !.algo = incorporate(@, coerceToDouble(input))])

\* AccumulatorPercentile::processInternal
processInternal(acc, input, merging) ==
    IF merging
    THEN LET combined == [acc EXCEPT !.algo = combine(@, input)]
             tracked  == [combined EXCEPT !.memUsageTracker =
                             TrackerSet(@, SizeofAccumulator
                                           + memUsageBytes(combined.algo))]
         IN  uassertWithinMemoryLimit(tracked)
    ELSE IF ~numeric(input)
         THEN Returned(acc, <<>>)
         ELSE LET incorporated ==
                      [acc EXCEPT !.algo = incorporate(@, coerceToDouble(input))]
                  tracked ==
                      [incorporated EXCEPT !.memUsageTracker =
                          TrackerSet(@, SizeofAccumulator
                                        + memUsageBytes(incorporated.algo))]
              IN  uassertWithinMemoryLimit(tracked)

\* as formatFinalValue, but the no-data result is a single null
formatFinalValueOneNull(nPercentiles, pctls) ==
    IF pctls = <<>>
    THEN <<BSONNULL>>
    ELSE [i \in 1..Len(pctls) |-> Double(pctls[i])]

\* AccumulatorPercentile::formatFinalValue
formatFinalValue(nPercentiles, pctls) ==
    IF pctls = <<>>
    THEN [i \in 1..nPercentiles |-> BSONNULL]
    ELSE [i \in 1..Len(pctls) |-> Double(pctls[i])]

\* as getValueCalls, but the algorithm is asked only when it holds data
getValueCallsGuarded(acc, toBeMerged) ==
    IF toBeMerged THEN <<"serialize">>
    ELSE IF Count(acc.algo) = 0 THEN <<>>
    ELSE <<"computePercentiles">>

\* the calls AccumulatorPercentile::getValue and AccumulatorMedian::getValue
\* make on _algo: serialize in the merge phase, computePercentiles
\* otherwise, before formatFinalValue looks at the result
getValueCalls(acc, toBeMerged) ==
    IF toBeMerged THEN <<"serialize">> ELSE <<"computePercentiles">>

\* as getValue, but the percentiles are computed for the sorted fractions
getValueSortsFractions(acc, toBeMerged) ==
    IF toBeMerged
    THEN serialize(acc.algo)
    ELSE formatFinalValue(Len(acc.percentiles),
                          computePercentiles(acc.algo, SortAsc(acc.percentiles)))

\* as getValue, but the flag is ignored: the formatted final value is
\* returned in the merge phase too
getValueIgnoresFlag(acc, toBeMerged) ==
    formatFinalValue(Len(acc.percentiles),
                     computePercentiles(acc.algo, acc.percentiles))

\* AccumulatorPercentile::getValue
getValue(acc, toBeMerged) ==
    IF toBeMerged
    THEN serialize(acc.algo)
    ELSE formatFinalValue(Len(acc.percentiles),
                          computePercentiles(acc.algo, acc.percentiles))

\* as reset, but the tracker is made anew with the server-wide limit
resetToDefaultLimit(acc) ==
    LET algo == createPercentileAlgorithm(acc.method)
    IN  [acc EXCEPT
            !.algo = algo,
            !.memUsageTracker =
                [currentMemoryBytes |-> SizeofAccumulator + memUsageBytes(algo),
                 maxAllowedMemoryUsageBytes |->
                     internalQueryMaxPercentileAccumulatorBytes]]

\* as reset, but the memory tracker is left as it was
resetKeepsUsage(acc) ==
    [acc EXCEPT !.algo = createPercentileAlgorithm(acc.method)]

\* as reset, but the algorithm is kept and only the usage is recomputed
resetKeepsSamples(acc) ==
    [acc EXCEPT !.memUsageTracker =
        TrackerSet(@, SizeofAccumulator + memUsageBytes(acc.algo))]

\* AccumulatorPercentile::reset
reset(acc) ==
    LET algo == createPercentileAlgorithm(acc.method)
    IN  [acc EXCEPT !.algo = algo,
                    !.memUsageTracker =
                        TrackerSet(@, SizeofAccumulator + memUsageBytes(algo))]

(* ----------------------------- the stage ----------------------------- *)

\* the fraction lists a stage is parsed with (the 'p' array, in tenths)
FractionLists == {<<5>>, <<5, 9, 1>>, <<0, 10, 0>>}

\* the per-construction memory limits: the server default, or an override
\* that leaves room for exactly one retained sample
MemoryLimits == {None, Some(SizeofAccumulator + AlgoBaseBytes + DoubleBytes)}

Samples == {v * Scale : v \in 0..MaxVal}

\* the sample streams a peer worker ingested before it was asked for its
\* partial state
PeerStreams == SeqsUpTo(Samples, MaxPartialLen)

RECURSIVE IngestAll(_, _)
IngestAll(acc, stream) ==
    IF stream = <<>> THEN acc
    ELSE IngestAll(processInternal(acc, Double(Head(stream)), FALSE).acc,
                   Tail(stream))

\* the partial state of a peer: getValue(true) of an accumulator of the same
\* stage, on another worker, that ingested the stream
PeerPartial(ps, method, stream) ==
    getValue(IngestAll(AccumulatorPercentile(ps, method, None), stream), TRUE)

VARIABLES
    acc,   \* the accumulator object of one group key
    hist,  \* what acc took in since construction or the last reset: the
           \* numeric values ingested (ascending) and the sample streams of
           \* the partials merged, in the order of the merges
    last   \* the last call on acc and what it handed back

vars == <<acc, hist, last>>

EmptyHist == [direct |-> <<>>, merged |-> <<>>]

Call(op, isNumeric, toBeMerged, out) ==
    [op |-> op, numeric |-> isNumeric, toBeMerged |-> toBeMerged,
     status |-> out.status, value |-> out.value,
     used |-> out.used, limit |-> out.limit]

\* the factory of parseArgs: create(expCtx, ps, method), or a direct
\* construction with a memory limit of its own
Init ==
    /\ acc \in {AccumulatorPercentile(ps, method, m) :
                   ps \in FractionLists, method \in Methods, m \in MemoryLimits}
    /\ hist = EmptyHist
    /\ last = Call("create", FALSE, FALSE, Returned(acc, <<>>))

\* ingest(value): processInternal(value, false)
Ingest(v) ==
    /\ numeric(v) => Count(acc.algo) < MaxSamples
    /\ LET out == processInternal(acc, v, FALSE)
       IN  /\ acc' = out.acc
           /\ last' = Call("ingest", numeric(v), FALSE, out)
    /\ hist' = IF numeric(v)
               THEN [hist EXCEPT !.direct = InsertSorted(@, coerceToDouble(v))]
               ELSE hist

\* ingestPartial(serializedPeer): processInternal(partial, true)
IngestPartial(stream) ==
    /\ Count(acc.algo) + Len(stream) <= MaxSamples
    /\ Len(hist.merged) < MaxMerges
    /\ LET out == processInternal(acc,
                                  PeerPartial(acc.percentiles, acc.method, stream),
                                  TRUE)
       IN  /\ acc' = out.acc
           /\ last' = Call("ingestPartial", FALSE, FALSE, out)
    /\ hist' = [hist EXCEPT !.merged = Append(@, stream)]

\* as Finalize, but the merge-phase finalize moves the samples out of the
\* algorithm
FinalizeDrains(toBeMerged) ==
    /\ last' = Call("getValue", FALSE, toBeMerged,
                    Returned(acc, getValue(acc, toBeMerged)))
    /\ acc' = IF toBeMerged THEN [acc EXCEPT !.algo.buf = <<>>] ELSE acc
    /\ hist' = hist

\* finalize(forMerge): getValue(toBeMerged)
Finalize(toBeMerged) ==
    /\ last' = Call("getValue", FALSE, toBeMerged,
                    Returned(acc, getValue(acc, toBeMerged)))
    /\ UNCHANGED <<acc, hist>>

\* reset()
Reset ==
    /\ acc' = reset(acc)
    /\ hist' = EmptyHist
    /\ last' = Call("reset", FALSE, FALSE, Returned(acc', <<>>))

Next ==
    \/ \E v \in InputValues : Ingest(v)
    \/ \E stream \in PeerStreams : IngestPartial(stream)
    \/ \E toBeMerged \in BOOLEAN : Finalize(toBeMerged)
    \/ Reset

Spec == Init /\ [][Next]_vars

(* ------------------------------ claims ------------------------------- *)

Nulls(n) == [i \in 1..n |-> BSONNULL]

\* the samples acc took in since construction or the last reset
TakenIn == Len(hist.direct) + Len(FlattenSeq(hist.merged))

Usage == acc.memUsageTracker.currentMemoryBytes

Limit == acc.memUsageTracker.maxAllowedMemoryUsageBytes

NonMergeFinalize == last.op = "getValue" /\ ~last.toBeMerged

\* C1: a non-merge finalize returns one entry per requested fraction, the
\* i-th entry being the percentile of the i-th fraction (null while there is
\* no data), so equal fractions give equal entries.
C1_OutputMatchesFractions ==
    NonMergeFinalize =>
        /\ Len(last.value) = Len(acc.percentiles)
        /\ \A i \in 1..Len(acc.percentiles) :
               last.value[i] =
                   IF Count(acc.algo) = 0 THEN BSONNULL
                   ELSE Double(computePercentiles(acc.algo,
                                                  <<acc.percentiles[i]>>)[1])
        /\ \A i, j \in 1..Len(acc.percentiles) :
               acc.percentiles[i] = acc.percentiles[j]
                   => last.value[i] = last.value[j]

C1_Witness ==
    /\ NonMergeFinalize
    /\ acc.percentiles = <<0, 10, 0>>
    /\ last.value[1] = last.value[3]
    /\ last.value[1] # last.value[2]
    /\ hist.direct # <<>>
    /\ hist.merged # <<>>

\* C2: with no numeric value ingested and no partial merged since
\* construction or the last reset, a non-merge finalize returns exactly one
\* null per requested fraction.
C2_NoDataGivesNulls ==
    (NonMergeFinalize /\ hist = EmptyHist)
        => last.value = Nulls(Len(acc.percentiles))

C2_Witness ==
    /\ NonMergeFinalize
    /\ hist = EmptyHist
    /\ Len(acc.percentiles) = 3
    /\ last.value = <<BSONNULL, BSONNULL, BSONNULL>>

\* C3: ingesting a non-numeric value (not merging) changes nothing of the
\* accumulator - algorithm, memory tracker, method, fractions - and does
\* not fail.
C3_NonNumericIngestIsNoOp ==
    [][\A v \in NonNumericInputs :
          Ingest(v) => (acc' = acc /\ hist' = hist /\ last'.status = "ok")]_vars

C3_Witness ==
    /\ last.op = "ingest"
    /\ ~last.numeric
    /\ last.status = "ok"
    /\ Count(acc.algo) > 0

\* C4: while only non-numeric values were ingested, no ingest has failed
\* and the non-merge finalize is one null per requested fraction.
C4_AllNonNumericGivesNulls ==
    (last.op = "ingest" /\ hist = EmptyHist) =>
        /\ ~last.numeric
        /\ last.status = "ok"
        /\ getValue(acc, FALSE) = Nulls(Len(acc.percentiles))

C4_Witness ==
    /\ last.op = "ingest"
    /\ hist = EmptyHist
    /\ Len(acc.percentiles) = 3
    /\ Limit < internalQueryMaxPercentileAccumulatorBytes

\* C5: after ingest of a numeric value the value is in the algorithm, the
\* usage is recomputed, and the call failed with ExceededMemoryLimit exactly
\* when the recomputed usage is greater than the limit.
C5_IngestEnforcesLimit ==
    (last.op = "ingest" /\ last.numeric) =>
        /\ Count(acc.algo) = TakenIn
        /\ Usage = SizeofAccumulator + memUsageBytes(acc.algo)
        /\ last.status \in {"ok", "ExceededMemoryLimit"}
        /\ last.status = "ExceededMemoryLimit" <=> Usage > Limit

C5_Witness ==
    /\ last.op = "ingest"
    /\ last.numeric
    /\ last.status = "ExceededMemoryLimit"
    /\ Usage > Limit

\* C6: after ingestPartial the peer's samples are in the algorithm, the
\* usage is recomputed after the combine, and the call failed with
\* ExceededMemoryLimit exactly when the usage is greater than the limit.
C6_IngestPartialEnforcesLimit ==
    last.op = "ingestPartial" =>
        /\ Count(acc.algo) = TakenIn
        /\ Usage = SizeofAccumulator + memUsageBytes(acc.algo)
        /\ last.status \in {"ok", "ExceededMemoryLimit"}
        /\ last.status = "ExceededMemoryLimit" <=> Usage > Limit

C6_Witness ==
    /\ last.op = "ingestPartial"
    /\ last.status = "ExceededMemoryLimit"
    /\ Usage > Limit
    /\ hist.direct = <<>>

\* C7: in every state the tracker's currentBytes is sizeof(accumulator) plus
\* the algorithm's current memory footprint.
C7_TrackerReflectsFootprint ==
    Usage = SizeofAccumulator + memUsageBytes(acc.algo)

C7_Witness ==
    /\ last.op = "reset"
    /\ Usage = SizeofAccumulator + AlgoBaseBytes
    /\ Limit < internalQueryMaxPercentileAccumulatorBytes

\* C8: the usage and the limit carried by an ExceededMemoryLimit error are
\* the tracker's currentBytes and maxBytes at the moment of the failure.
C8_ErrorReportsTracker ==
    last.status = "ExceededMemoryLimit" =>
        /\ last.op \in {"ingest", "ingestPartial"}
        /\ last.used = Usage
        /\ last.limit = Limit

C8_Witness ==
    /\ last.status = "ExceededMemoryLimit"
    /\ last.op = "ingestPartial"
    /\ last.used > last.limit
    /\ hist.direct # <<>>

\* a fresh accumulator of acc's fractions and method, as the factory makes it
Fresh == AccumulatorPercentile(acc.percentiles, acc.method, None)

RECURSIVE MergeAll(_, _)
MergeAll(a, partials) ==
    IF partials = <<>> THEN a
    ELSE MergeAll(processInternal(a, Head(partials), TRUE).acc, Tail(partials))

\* the partial states of the peers that ingested the streams
PartialsOf(streams) ==
    [i \in 1..Len(streams) |->
        PeerPartial(acc.percentiles, acc.method, streams[i])]

MergeOrders(n) ==
    {f \in [1..n -> 1..n] : \A i, j \in 1..n : f[i] = f[j] => i = j}

\* acc has just merged a partial state and never ingested a value itself
MergedOnly ==
    /\ acc.method \in ExactMethods
    /\ hist.direct = <<>>
    /\ last.op = "ingestPartial"

\* C9: for the exact methods, an accumulator that merged the partial states
\* of two peers that ingested S1 and S2 finalizes to what an accumulator of
\* the same method finalizes to after ingesting the samples of S1 and S2
\* itself, in whatever order.
C9_MergeEqualsDirectIngest ==
    (MergedOnly /\ Len(hist.merged) = 2) =>
        LET union == hist.merged[1] \o hist.merged[2]
            final == getValue(acc, FALSE)
        IN  \A f \in MergeOrders(Len(union)) :
                getValue(IngestAll(Fresh, [i \in 1..Len(union) |-> union[f[i]]]),
                         FALSE) = final

C9_Witness ==
    /\ MergedOnly
    /\ Len(hist.merged) = 2
    /\ hist.merged[1] = <<Scale>>
    /\ hist.merged[2] = <<0>>
    /\ acc.percentiles = <<5, 9, 1>>
    /\ getValue(acc, FALSE)[2] # getValue(acc, FALSE)[3]

\* C10: for the exact methods, the partial states an accumulator merged give
\* the same final percentiles when a fresh accumulator merges them in any
\* other order, or merges the partial state of an intermediate accumulator
\* that merged some of them first.
C10_CombineOrderAndGrouping ==
    MergedOnly =>
        LET n     == Len(hist.merged)
            final == getValue(acc, FALSE)
        IN  \A f \in MergeOrders(n), k \in 0..n :
                LET order == PartialsOf([i \in 1..n |-> hist.merged[f[i]]])
                    inter == getValue(MergeAll(Fresh, SubSeq(order, 1, k)), TRUE)
                    rest  == SubSeq(order, k + 1, n)
                IN  /\ getValue(MergeAll(Fresh, <<inter>> \o rest), FALSE) = final
                    /\ getValue(MergeAll(Fresh, rest \o <<inter>>), FALSE) = final

C10_Witness ==
    /\ MergedOnly
    /\ Len(hist.merged) = 2
    /\ hist.merged[1] = <<Scale>>
    /\ hist.merged[2] = <<0>>
    /\ acc.percentiles = <<0, 10, 0>>
    /\ getValue(acc, FALSE)[1] # getValue(acc, FALSE)[2]

\* C11: for the exact methods the merge-phase finalize round-trips: a fresh
\* accumulator of the same method and fractions that merges getValue(true)
\* of acc finalizes to what acc finalizes to, whatever acc took in.
C11_PartialRoundTrips ==
    acc.method \in ExactMethods =>
        getValue(MergeAll(Fresh, <<getValue(acc, TRUE)>>), FALSE)
            = getValue(acc, FALSE)

C11_Witness ==
    /\ acc.method = "continuous"
    /\ last.op = "getValue"
    /\ last.toBeMerged
    /\ last.value = <<Double(Scale), Double(0)>>
    /\ hist.merged = <<>>
    /\ acc.percentiles = <<5, 9, 1>>

\* C12: reset discards every sample and merged partial: right after it the
\* non-merge finalize is all nulls and the usage is that of a freshly
\* constructed accumulator, while method, fractions and limit are unchanged.
C12_ResetDiscardsSamples ==
    [][Reset =>
          /\ getValue(acc', FALSE) = Nulls(Len(acc.percentiles))
          /\ acc'.memUsageTracker.currentMemoryBytes
                 = Fresh.memUsageTracker.currentMemoryBytes
          /\ acc'.method = acc.method
          /\ acc'.percentiles = acc.percentiles
          /\ acc'.memUsageTracker.maxAllowedMemoryUsageBytes = Limit]_vars

C12_Witness ==
    /\ last.op = "reset"
    /\ acc.method = "continuous"
    /\ acc.percentiles = <<5, 9, 1>>
    /\ acc.algo.buf = <<>>
    /\ Usage = SizeofAccumulator + AlgoBaseBytes

(* ------------------ the exact methods on wider data ------------------- *)

\* one group of the jstest: documents with numeric x over a wider range,
\* any single fraction in tenths or one of the lists of the stage
WideSamples == {v * Scale : v \in 0..MaxWideVal}

WideFractionLists == {<<p>> : p \in 0..Scale} \cup FractionLists

InitExact ==
    /\ acc \in {AccumulatorPercentile(ps, method, None) :
                   ps \in WideFractionLists, method \in ExactMethods}
    /\ hist = EmptyHist
    /\ last = Call("create", FALSE, FALSE, Returned(acc, <<>>))

\* ingest(value) of a numeric value of the wider range
IngestWide(x) ==
    /\ Count(acc.algo) < MaxWideSamples
    /\ LET out == processInternal(acc, Double(x), FALSE)
       IN  /\ acc' = out.acc
           /\ last' = Call("ingest", TRUE, FALSE, out)
    /\ hist' = [hist EXCEPT !.direct = InsertSorted(@, x)]

NextExact ==
    \/ \E x \in WideSamples : IngestWide(x)
    \/ Finalize(FALSE)
    \/ Reset

SpecExact == InitExact /\ [][NextExact]_vars

\* the smallest integer k with k * Scale >= x, for x >= 0
CeilTenths(x) == CHOOSE k \in 0..x : k * Scale >= x /\ (k - 1) * Scale < x

Clamp(r, lo, hi) == IF r < lo THEN lo ELSE IF r > hi THEN hi ELSE r

SeqMin(s) == CHOOSE x \in {s[i] : i \in 1..Len(s)} :
                 \A i \in 1..Len(s) : x <= s[i]

SeqMax(s) == CHOOSE x \in {s[i] : i \in 1..Len(s)} :
                 \A i \in 1..Len(s) : x >= s[i]

\* C13: over n >= 1 values the discrete method returns, for each fraction p,
\* the value at 1-indexed rank ceil(p * n), clamped to [1, n], of the sorted
\* values; every entry is one of the ingested values.
C13_DiscreteIsNearestRank ==
    (NonMergeFinalize /\ acc.method = "discrete" /\ hist.direct # <<>>) =>
        LET n == Len(hist.direct)
        IN  \A i \in 1..Len(acc.percentiles) :
                /\ last.value[i] =
                       Double(hist.direct[
                           Clamp(CeilTenths(acc.percentiles[i] * n), 1, n)])
                /\ \E k \in 1..n : last.value[i] = Double(hist.direct[k])

C13_Witness ==
    /\ NonMergeFinalize
    /\ acc.method = "discrete"
    /\ acc.percentiles = <<4>>
    /\ acc.algo.buf = <<2 * Scale, 0, Scale>>
    /\ last.value = <<Double(Scale)>>

C15_ExtremesAreMinAndMax ==
    (NonMergeFinalize /\ acc.method \in ExactMethods /\ hist.direct # <<>>) =>
        \A i \in 1..Len(acc.percentiles) :
            /\ acc.percentiles[i] = 0
                   => last.value[i] = Double(SeqMin(hist.direct))
            /\ acc.percentiles[i] = Scale
                   => last.value[i] = Double(SeqMax(hist.direct))

C15_Witness ==
    /\ NonMergeFinalize
    /\ acc.method \in ExactMethods
    /\ acc.percentiles = <<0, Scale, 0>>
    /\ acc.algo.buf = <<Scale, 2 * Scale, 0>>
    /\ last.value = <<Double(0), Double(2 * Scale), Double(0)>>

(* --------------------------- AccumulatorMedian ------------------------ *)

\* Value(std::vector<Value>): an array as one value
ArrayValue(elems) == [kind |-> "array", val |-> elems]

\* as AccumulatorMedian, but the fraction list of the caller is passed on
AccumulatorMedianKeepsList(ps, method, maxMemoryUsageBytes) ==
    AccumulatorPercentile(
        ps, method,
        Some(value_or(maxMemoryUsageBytes,
                      internalQueryMaxPercentileAccumulatorBytes)))

\* AccumulatorMedian::AccumulatorMedian: the fraction list of the caller is
\* unused, the base class is constructed with {0.5}
AccumulatorMedian(ps, method, maxMemoryUsageBytes) ==
    AccumulatorPercentile(
        <<Scale \div 2>>, method,
        Some(value_or(maxMemoryUsageBytes,
                      internalQueryMaxPercentileAccumulatorBytes)))

\* AccumulatorMedian::create
AccumulatorMedian_create(ps, method) == AccumulatorMedian(<<>>, method, None)

\* as AccumulatorMedian::formatFinalValue, but without the override: the
\* array of the base class
AccumulatorMedian_formatFinalValueOfBase(nPercentiles, pctls) ==
    [status |-> "ok",
     value |-> ArrayValue(formatFinalValue(nPercentiles, pctls))]

\* AccumulatorMedian::formatFinalValue: a null, or the single result after
\* tassert(7436101, pctls.size() == 1)
AccumulatorMedian_formatFinalValue(nPercentiles, pctls) ==
    IF pctls = <<>>
    THEN [status |-> "ok", value |-> BSONNULL]
    ELSE IF Len(pctls) # 1
    THEN [status |-> "7436101", value |-> BSONNULL]
    ELSE [status |-> "ok", value |-> Double(Head(pctls))]

\* as AccumulatorMedian::getValue, but the base class is asked for the
\* final value in the merge phase too
AccumulatorMedian_getValueFinalInMerge(a, toBeMerged) ==
    IF toBeMerged
    THEN [status |-> "ok", value |-> getValue(a, FALSE)]
    ELSE AccumulatorMedian_formatFinalValue(
             Len(a.percentiles),
             computePercentiles(a.algo, a.percentiles))

\* AccumulatorMedian::getValue
AccumulatorMedian_getValue(a, toBeMerged) ==
    IF toBeMerged
    THEN [status |-> "ok", value |-> getValue(a, toBeMerged)]
    ELSE AccumulatorMedian_formatFinalValue(
             Len(a.percentiles),
             computePercentiles(a.algo, a.percentiles))

\* the fraction lists a caller hands to the constructor or to create: the
\* empty one of the factory of parseArgs, {0.5}, or any list of the stage
UnusedLists == {<<>>, <<Scale \div 2>>} \cup FractionLists

\* the factory of AccumulatorMedian::parseArgs, or a direct construction
InitMedian ==
    /\ acc \in {AccumulatorMedian_create(ps, method) :
                   ps \in UnusedLists, method \in Methods}
               \cup {AccumulatorMedian(ps, method, m) :
                        ps \in UnusedLists, method \in Methods,
                        m \in MemoryLimits}
    /\ hist = EmptyHist
    /\ last = Call("create", FALSE, FALSE, Returned(acc, <<>>))

\* finalize(forMerge) of a median: AccumulatorMedian::getValue(toBeMerged)
FinalizeMedian(toBeMerged) ==
    /\ LET out == AccumulatorMedian_getValue(acc, toBeMerged)
       IN  last' = Call("getValue", FALSE, toBeMerged,
                        [acc |-> acc, status |-> out.status,
                         value |-> out.value, used |-> 0, limit |-> 0])
    /\ UNCHANGED <<acc, hist>>

NextMedian ==
    \/ \E v \in InputValues : Ingest(v)
    \/ \E stream \in PeerStreams : IngestPartial(stream)
    \/ \E toBeMerged \in BOOLEAN : FinalizeMedian(toBeMerged)
    \/ Reset

SpecMedian == InitMedian /\ [][NextMedian]_vars

\* C16: the non-merge finalize of a median returns one scalar: a null while
\* no numeric value was ingested and no partial merged, otherwise the one
\* computed number, which is the sole entry of what a percentile accumulator
\* in the same state returns; it is never an array.
C16_MedianIsScalar ==
    NonMergeFinalize =>
        /\ last.value.kind \in {"null", "double"}
        /\ (hist.direct = <<>> /\ hist.merged = <<>>)
               => last.value.kind = "null"
        /\ TakenIn > 0 => last.value.kind = "double"
        /\ <<last.value>> = getValue(acc, FALSE)

C16_Witness ==
    /\ NonMergeFinalize
    /\ acc.method = "continuous"
    /\ hist.direct = <<0, Scale>>
    /\ last.value = Double(Scale \div 2)

\* C17: a median accumulator has the fraction list {0.5} whatever list it
\* was constructed with, so the algorithm returns at most one value and the
\* single-result assertion 7436101 never fails.
C17_MedianHasOneFraction ==
    /\ acc.percentiles = <<Scale \div 2>>
    /\ Len(computePercentiles(acc.algo, acc.percentiles)) \in {0, 1}
    /\ last.status # "7436101"

C17_Witness ==
    /\ NonMergeFinalize
    /\ last.status = "ok"
    /\ acc.percentiles = <<Scale \div 2>>
    /\ Len(computePercentiles(acc.algo, acc.percentiles)) = 1
    /\ hist.merged = <<<<Scale>>, <<0>>>>

(* ------------------------- parsing the arguments ---------------------- *)

\* the elements of a 'p' array: a literal, a variable bound by let (folded
\* to its value by optimize()), or a field path, which only a document
\* gives a value
Literal(v) == [ref |-> "literal", kind |-> v.kind, val |-> v.val]

Variable(v) == [ref |-> "variable", kind |-> v.kind, val |-> v.val]

FieldRef == [ref |-> "field", kind |-> "missing", val |-> 0]

\* -0.1, 0.0, 0.5, 1.0 and 1.5, in tenths
PElemValues == {0 - 1, 0, Scale \div 2, Scale, Scale + Scale \div 2}

PElems ==
    {Literal(Double(x)) : x \in PElemValues}
        \cup {Literal([kind |-> "string", val |-> 0]),
              Variable(Double(Scale - 1)),
              FieldRef}

\* the expressions of the 'p' field: an array of elements, $concatArrays of
\* two arrays, a variable bound to a whole array, a field path, a scalar
ArrayExpr(elems) == [op |-> "array", parts |-> <<elems>>]

ConcatArrays(a, b) == [op |-> "concatArrays", parts |-> <<a, b>>]

ArrayVariable(elems) == [op |-> "variable", parts |-> <<elems>>]

FieldPath == [op |-> "fieldPath", parts |-> <<>>]

Scalar(e) == [op |-> "scalar", parts |-> <<<<e>>>>]

PExprs ==
    {ArrayExpr(es) : es \in SeqsUpTo(PElems, MaxPLen)}
        \cup {ConcatArrays(a, b) : a, b \in SeqsUpTo(PElems, 1)}
        \cup {ArrayVariable(<<Literal(Double(5)), Literal(Double(9)),
                              Literal(Double(1))>>),
              FieldPath,
              Scalar(Literal(Double(Scale \div 2)))}

\* Expression::parseOperand(...)->optimize(): an expression without field
\* paths folds to an ExpressionConstant holding its value
optimize(expr) ==
    LET elems == FlattenSeq(expr.parts)
    IN  IF expr.op = "fieldPath"
           \/ \E i \in 1..Len(elems) : elems[i].ref = "field"
        THEN [constant |-> FALSE, isArray |-> FALSE, elems |-> <<>>]
        ELSE [constant |-> TRUE,
              isArray |-> expr.op # "scalar",
              elems |-> [i \in 1..Len(elems) |->
                            [kind |-> elems[i].kind, val |-> elems[i].val]]]

\* what a parse step hands back
Parsed(value) == [status |-> "ok", value |-> value]

Failed(code, message) == [status |-> code, value |-> message]

\* as parseP, but 0.0 and 1.0 themselves are out of range
parsePOpenInterval(elem) ==
    LET constExpr == optimize(elem)
        pVals     == constExpr.elems
        msg       == "must be an array of numbers from [0.0, 1.0]"
        bad       == {i \in 1..Len(pVals) :
                         \/ ~numeric(pVals[i])
                         \/ coerceToDouble(pVals[i]) <= 0
                         \/ coerceToDouble(pVals[i]) >= Scale}
    IN  IF ~constExpr.constant
        THEN Failed("7750300", "must be an array of constant values")
        ELSE IF ~constExpr.isArray \/ Len(pVals) = 0
        THEN Failed("7750301", msg)
        ELSE IF bad # {}
        THEN LET first == CHOOSE i \in bad : \A j \in bad : i <= j
             IN  IF ~numeric(pVals[first])
                 THEN Failed("7750302", msg)
                 ELSE Failed("7750303", msg)
        ELSE Parsed([i \in 1..Len(pVals) |-> coerceToDouble(pVals[i])])

\* parseP: the constant array of the 'p' field as doubles, in its order; the
\* loop stops at the first element that is not a number of [0.0, 1.0]
parseP(elem) ==
    LET constExpr == optimize(elem)
        pVals     == constExpr.elems
        msg       == "must be an array of numbers from [0.0, 1.0]"
        bad       == {i \in 1..Len(pVals) :
                         \/ ~numeric(pVals[i])
                         \/ coerceToDouble(pVals[i]) < 0
                         \/ coerceToDouble(pVals[i]) > Scale}
    IN  IF ~constExpr.constant
        THEN Failed("7750300", "must be an array of constant values")
        ELSE IF ~constExpr.isArray \/ Len(pVals) = 0
        THEN Failed("7750301", msg)
        ELSE IF bad # {}
        THEN LET first == CHOOSE i \in bad : \A j \in bad : i <= j
             IN  IF ~numeric(pVals[first])
                 THEN Failed("7750302", msg)
                 ELSE Failed("7750303", msg)
        ELSE Parsed([i \in 1..Len(pVals) |-> coerceToDouble(pVals[i])])

\* the method names a specification can carry
MethodNames == Methods \cup {"Approximate", "exact"}

\* as validatePercentileMethod, but the feature flag is not consulted
validatePercentileMethodIgnoresGate(method, featureFlagAccuratePercentiles) ==
    IF method \notin {"approximate", "discrete", "continuous"}
    THEN Failed("BadValue",
                "Currently only 'approximate', 'discrete', and 'continuous' can be used as percentile 'method'.")
    ELSE Parsed(method)

\* AccumulatorPercentile::validatePercentileMethod, the feature flag
\* gFeatureFlagAccuratePercentiles being the capability gate
validatePercentileMethod(method, featureFlagAccuratePercentiles) ==
    IF featureFlagAccuratePercentiles
    THEN IF method # "approximate" /\ method # "discrete"
            /\ method # "continuous"
         THEN Failed("BadValue",
                     "Currently only 'approximate', 'discrete', and 'continuous' can be used as percentile 'method'.")
         ELSE Parsed(method)
    ELSE IF method # "approximate"
         THEN Failed("BadValue",
                     "Currently only 'approximate' can be used as percentile 'method'.")
         ELSE Parsed(method)

\* methodNameToEnum
methodNameToEnum(method) ==
    IF method \in {"approximate", "discrete", "continuous"}
    THEN Parsed(method)
    ELSE Failed("7766600",
                "Currently only approximate percentiles are supported")

\* AccumulatorPercentile::create
create(ps, method) == AccumulatorPercentile(ps, method, None)

\* the specification documents of a $percentile stage
Specifications ==
    [isObject : {TRUE}, p : PExprs, method : MethodNames]
        \cup {[isObject |-> FALSE, p |-> FieldPath, method |-> "approximate"]}

\* as parseArgs, but the 'p' field is folded and taken as it is
parseArgsTakesFoldedP(elem, featureFlagAccuratePercentiles) ==
    IF ~elem.isObject
    THEN Failed("7429703", "specification must be an object")
    ELSE LET valid == validatePercentileMethod(elem.method,
                                               featureFlagAccuratePercentiles)
             pVals == optimize(elem.p).elems
             ps    == [i \in 1..Len(pVals) |-> coerceToDouble(pVals[i])]
             name  == methodNameToEnum(elem.method)
         IN  IF valid.status # "ok" THEN valid
             ELSE IF name.status # "ok" THEN name
             ELSE Parsed(create(ps, name.value))

\* as parseArgs, but the specification is parsed without the validator of
\* 'method'
parseArgsSkipsValidator(elem, featureFlagAccuratePercentiles) ==
    IF ~elem.isObject
    THEN Failed("7429703", "specification must be an object")
    ELSE LET ps   == parseP(elem.p)
             name == methodNameToEnum(elem.method)
         IN  IF ps.status # "ok" THEN ps
             ELSE IF name.status # "ok" THEN name
             ELSE Parsed(create(ps.value, name.value))

\* AccumulatorPercentile::parseArgs, up to the accumulator its factory
\* makes; AccumulatorPercentileSpec::parse runs the validator of 'method'
parseArgs(elem, featureFlagAccuratePercentiles) ==
    IF ~elem.isObject
    THEN Failed("7429703", "specification must be an object")
    ELSE LET valid == validatePercentileMethod(elem.method,
                                               featureFlagAccuratePercentiles)
             ps    == parseP(elem.p)
             name  == methodNameToEnum(elem.method)
         IN  IF valid.status # "ok" THEN valid
             ELSE IF ps.status # "ok" THEN ps
             ELSE IF name.status # "ok" THEN name
             ELSE Parsed(create(ps.value, name.value))

\* the fraction lists a caller inside the server can hand to create
AnyLists == SeqsUpTo(PElemValues, MaxPLen)

\* the null intrusive_ptr<AccumulatorState> of a stage whose factory was
\* not called yet
NoAccumulator ==
    [percentiles |-> <<>>,
     algo |-> [method |-> "none", buf |-> <<>>],
     method |-> "none",
     memUsageTracker |->
         [currentMemoryBytes |-> 0, maxAllowedMemoryUsageBytes |-> 0]]

\* the last step of the stage: its name, its arguments, what it handed back
Handed(op, arg, out) ==
    [op |-> op, arg |-> arg, numeric |-> FALSE, toBeMerged |-> FALSE,
     status |-> out.status, value |-> out.value, used |-> 0, limit |-> 0]

\* one stage at plan time: nothing was parsed and the factory was not called
InitParse ==
    /\ acc = NoAccumulator
    /\ hist = EmptyHist
    /\ last = Handed("none", <<>>, Parsed(<<>>))

\* the steps are functions of their arguments alone: each is taken once,
\* from the initial state
AtPlanTime == acc = NoAccumulator /\ last.op = "none"

ParseP(elem) ==
    /\ AtPlanTime
    /\ last' = Handed("parseP", elem, parseP(elem))
    /\ UNCHANGED <<acc, hist>>

ValidatePercentileMethod(method, featureFlagAccuratePercentiles) ==
    /\ AtPlanTime
    /\ last' = Handed("validatePercentileMethod",
                      [method |-> method,
                       flag |-> featureFlagAccuratePercentiles],
                      validatePercentileMethod(method,
                                               featureFlagAccuratePercentiles))
    /\ UNCHANGED <<acc, hist>>

\* parseArgs and one call of its factory: the accumulator of a new group
ParseArgs(elem, featureFlagAccuratePercentiles) ==
    LET out == parseArgs(elem, featureFlagAccuratePercentiles)
    IN  /\ AtPlanTime
        /\ acc' = IF out.status = "ok" THEN out.value ELSE acc
        /\ last' = Handed("parseArgs",
                          [elem |-> elem,
                           flag |-> featureFlagAccuratePercentiles],
                          IF out.status = "ok" THEN Parsed(<<>>) ELSE out)
        /\ hist' = EmptyHist

\* create called directly, or the constructor with a limit of its own
Create(ps, method, maxMemoryUsageBytes) ==
    /\ AtPlanTime
    /\ acc' = IF maxMemoryUsageBytes = None
              THEN create(ps, method)
              ELSE AccumulatorPercentile(ps, method, maxMemoryUsageBytes)
    /\ last' = Handed("create",
                      [ps |-> ps, method |-> method,
                       maxMemoryUsageBytes |-> maxMemoryUsageBytes],
                      Parsed(<<>>))
    /\ hist' = EmptyHist

NextParse ==
    \/ \E elem \in PExprs : ParseP(elem)
    \/ \E method \in MethodNames, flag \in BOOLEAN :
           ValidatePercentileMethod(method, flag)
    \/ \E elem \in Specifications, flag \in BOOLEAN : ParseArgs(elem, flag)
    \/ \E ps \in AnyLists, method \in Methods, m \in MemoryLimits :
           Create(ps, method, m)

SpecParse == InitParse /\ [][NextParse]_vars

\* the error kind of the specification errors: the Status and uassert codes
\* of the parse and validation steps
InvalidSpecification ==
    {"BadValue", "7429703", "7750300", "7750301", "7750302", "7750303",
     "7766600"}

\* a non-empty list of fractions of [0.0, 1.0]
ValidFractions(ps) ==
    /\ ps # <<>>
    /\ \A i \in 1..Len(ps) : 0 <= ps[i] /\ ps[i] <= Scale

\* the values of the constant array an expression folds to
FoldedValues(expr) ==
    LET elems == optimize(expr).elems
    IN  [i \in 1..Len(elems) |-> elems[i].val]

\* the expressions that fold to a non-empty constant array of numbers of
\* [0.0, 1.0]
WellFormedP(expr) ==
    LET folded == optimize(expr)
    IN  /\ folded.constant
        /\ folded.isArray
        /\ folded.elems # <<>>
        /\ \A i \in 1..Len(folded.elems) :
               /\ folded.elems[i].kind = "double"
               /\ folded.elems[i].val \in 0..Scale

\* C18 as stated: create rejects an empty or out-of-range fraction list, so
\* no accumulator holds one.
C18_CreateValidatesFractions ==
    /\ last.op = "create" =>
           (~ValidFractions(last.arg.ps) =>
                last.status \in InvalidSpecification)
    /\ acc # NoAccumulator => ValidFractions(acc.percentiles)

\* C18: the fractions are validated by parseArgs, not by create: parseArgs
\* fails with a specification error, and makes no accumulator, unless 'p'
\* folds to a non-empty constant array of numbers of [0.0, 1.0], and the
\* accumulator of its factory holds exactly that list; create itself takes
\* any list as it is.
C18_ParseArgsValidatesFractions ==
    /\ last.op = "parseArgs" =>
           /\ last.status = "ok" =>
                  /\ WellFormedP(last.arg.elem.p)
                  /\ ValidFractions(acc.percentiles)
                  /\ acc.percentiles = FoldedValues(last.arg.elem.p)
           /\ last.status # "ok" =>
                  /\ acc = NoAccumulator
                  /\ last.status \in InvalidSpecification
           /\ ~WellFormedP(last.arg.elem.p) => last.status # "ok"
    /\ last.op = "create" =>
           /\ last.status = "ok"
           /\ acc.percentiles = last.arg.ps

C18_Witness ==
    /\ last.op = "parseArgs"
    /\ last.status = "7750303"
    /\ last.arg.elem.method = "discrete"
    /\ last.arg.flag
    /\ acc = NoAccumulator

\* C19: parseP returns the values of the constant array of 'p', in its
\* length and order, each a number of [0.0, 1.0], the bounds included; it
\* fails with a specification error for an expression that is not constant,
\* not an array, an empty array, or has an element that is not a number or
\* lies below 0 or above 1.
C19_ParsePValidates ==
    last.op = "parseP" =>
        /\ last.status = "ok" <=> WellFormedP(last.arg)
        /\ last.status # "ok" => last.status \in InvalidSpecification
        /\ last.status = "ok" =>
               /\ Len(last.value) = Len(optimize(last.arg).elems)
               /\ \A i \in 1..Len(last.value) :
                      /\ last.value[i] = optimize(last.arg).elems[i].val
                      /\ 0 <= last.value[i]
                      /\ last.value[i] <= Scale

C19_Witness ==
    /\ last.op = "parseP"
    /\ last.status = "ok"
    /\ last.arg.op = "concatArrays"
    /\ last.value = <<0, Scale>>

\* the method names a message quotes
QuotedNames(message) ==
    CASE message = "Currently only 'approximate', 'discrete', and 'continuous' can be used as percentile 'method'."
             -> {"approximate", "discrete", "continuous"}
      [] message = "Currently only 'approximate' can be used as percentile 'method'."
             -> {"approximate"}
      [] OTHER -> {}

\* the names on offer: all three with the gate open, approximate alone with
\* the gate closed
Allowed(gateOpen) ==
    IF gateOpen THEN {"approximate", "discrete", "continuous"}
    ELSE {"approximate"}

\* C20: method validation accepts exactly the names on offer under the
\* gate; any other name fails with a specification error whose message
\* names the set on offer.
C20_MethodValidation ==
    last.op = "validatePercentileMethod" =>
        /\ last.status = "ok" <=> last.arg.method \in Allowed(last.arg.flag)
        /\ last.status # "ok" =>
               /\ last.status \in InvalidSpecification
               /\ QuotedNames(last.value) = Allowed(last.arg.flag)

C20_Witness ==
    /\ last.op = "validatePercentileMethod"
    /\ last.arg = [method |-> "continuous", flag |-> FALSE]
    /\ last.status = "BadValue"
    /\ QuotedNames(last.value) = {"approximate"}

\* C21 as stated: with the gate closed, a specification asking for the
\* discrete or the continuous method fails with UnsupportedMethod.
C21_GateClosedIsUnsupportedMethod ==
    (/\ last.op = "parseArgs"
     /\ last.arg.elem.isObject
     /\ ~last.arg.flag
     /\ last.arg.elem.method \in ExactMethods) =>
        /\ last.status = "UnsupportedMethod"
        /\ acc = NoAccumulator

\* C21: with the gate closed, parseArgs fails for the discrete and the
\* continuous method with the same BadValue as for an unknown name, its
\* message naming approximate alone, and makes no accumulator; an
\* accumulator that parseArgs makes with the gate closed is approximate.
C21_GateClosedIsBadValue ==
    (last.op = "parseArgs" /\ last.arg.elem.isObject /\ ~last.arg.flag) =>
        /\ last.arg.elem.method \in ExactMethods =>
               /\ last.status = "BadValue"
               /\ last.status \in InvalidSpecification
               /\ QuotedNames(last.value) = {"approximate"}
               /\ acc = NoAccumulator
        /\ last.arg.elem.method \in MethodNames \ Methods =>
               last.status = "BadValue"
        /\ acc # NoAccumulator => acc.method = "approximate"

C21_Witness ==
    /\ last.op = "parseArgs"
    /\ ~last.arg.flag
    /\ last.arg.elem.method = "continuous"
    /\ last.arg.elem.p = ArrayExpr(<<Literal(Double(Scale \div 2))>>)
    /\ last.status = "BadValue"
    /\ acc = NoAccumulator

\* C22: the method of an accumulator is fixed at construction: no ingest,
\* merge, finalize or reset, successful or failed on the memory limit,
\* changes the method or the kind of the algorithm instance.
C22_MethodNeverChanges ==
    [][/\ acc'.method = acc.method
       /\ acc'.algo.method = acc.method]_vars

C22_Witness ==
    /\ acc.method = "discrete"
    /\ acc.algo.method = "discrete"
    /\ last.op = "ingestPartial"
    /\ last.status = "ExceededMemoryLimit"
    /\ Count(acc.algo) = 2

\* C23: a percentile or median accumulator is constructed with the limit
\* given to the constructor, or with the server-wide default when none is
\* given, and no operation, reset included, changes the limit afterwards.
C23_LimitIsFixed ==
    /\ \A ps \in FractionLists, method \in Methods, m \in MemoryLimits :
           AccumulatorPercentile(ps, method, m)
                   .memUsageTracker.maxAllowedMemoryUsageBytes
               = IF m.has THEN m.value
                 ELSE internalQueryMaxPercentileAccumulatorBytes
    /\ \A ps \in UnusedLists, method \in Methods, m \in MemoryLimits :
           AccumulatorMedian(ps, method, m)
                   .memUsageTracker.maxAllowedMemoryUsageBytes
               = IF m.has THEN m.value
                 ELSE internalQueryMaxPercentileAccumulatorBytes
    /\ [][acc'.memUsageTracker.maxAllowedMemoryUsageBytes = Limit]_vars

C23_Witness ==
    /\ last.op = "reset"
    /\ acc.method = "approximate"
    /\ Limit = SizeofAccumulator + AlgoBaseBytes + DoubleBytes
    /\ Limit # internalQueryMaxPercentileAccumulatorBytes

(* -------------------------- one accumulator per group ----------------- *)

\* the documents of the jstest with several groups: {k, x}
GroupDocs ==
    <<[k |-> 0, x |-> Double(0)],
      [k |-> 0, x |-> Double(Scale)],
      [k |-> 1, x |-> Double(2 * Scale)],
      [k |-> 2, x |-> [kind |-> "missing", val |-> 0]],
      [k |-> 0, x |-> [kind |-> "string", val |-> 0]],
      [k |-> 1, x |-> Double(0)]>>

GroupKeys == {GroupDocs[i].k : i \in 1..Len(GroupDocs)}

\* {$percentile: {p: [0.9], input: "$x", method: "continuous"}}
GroupFractions == <<Scale - 1>>

GroupMethod == "continuous"

\* as factory, but the instance made for the first group is handed out again
factoryReusesInstance(accs, k) ==
    IF accs.objs = <<>>
    THEN [objs |-> Append(accs.objs, create(GroupFractions, GroupMethod)),
          of |-> [accs.of EXCEPT ![k] = Len(accs.objs) + 1]]
    ELSE [accs EXCEPT !.of[k] = 1]

\* the factory of parseArgs, called for a group key seen for the first
\* time: a new instance, which the key points to
factory(accs, k) ==
    [objs |-> Append(accs.objs, create(GroupFractions, GroupMethod)),
     of |-> [accs.of EXCEPT ![k] = Len(accs.objs) + 1]]

\* in this specification acc holds the instances of the stage and the
\* instance of each key (0: none yet); hist holds the documents seen and,
\* per key, the numeric values of its documents in their order
InitGroups ==
    /\ acc = [objs |-> <<>>, of |-> [k \in GroupKeys |-> 0]]
    /\ hist = [seen |-> {}, taken |-> [k \in GroupKeys |-> <<>>]]
    /\ last = Handed("none", <<>>, Parsed(<<>>))

\* one document reaches the stage: the accumulator of its key, made when
\* the key is new, ingests its x
IngestDoc(i) ==
    LET k    == GroupDocs[i].k
        x    == GroupDocs[i].x
        accs == IF acc.of[k] = 0 THEN factory(acc, k) ELSE acc
        out  == processInternal(accs.objs[accs.of[k]], x, FALSE)
    IN  /\ i \notin hist.seen
        /\ acc' = [accs EXCEPT !.objs[accs.of[k]] = out.acc]
        /\ hist' = [seen |-> hist.seen \cup {i},
                    taken |-> IF numeric(x)
                              THEN [hist.taken EXCEPT
                                       ![k] = Append(@, coerceToDouble(x))]
                              ELSE hist.taken]
        /\ last' = Handed("ingest", [key |-> k], out)

\* the result of one group is asked for
FinalizeGroup(k) ==
    /\ acc.of[k] # 0
    /\ last' = Handed("getValue", [key |-> k],
                      Parsed(getValue(acc.objs[acc.of[k]], FALSE)))
    /\ UNCHANGED <<acc, hist>>

NextGroups ==
    \/ \E i \in 1..Len(GroupDocs) : IngestDoc(i)
    \/ \E k \in GroupKeys : FinalizeGroup(k)

SpecGroups == InitGroups /\ [][NextGroups]_vars

\* the accumulator of a key, while it has one
InstanceOf(accs, k) == accs.objs[accs.of[k]]

\* C24: the accumulators of different keys are independent: a step on one
\* key leaves the instance of every other key, algorithm and tracker, as it
\* was; the result of a group is that of a fresh accumulator fed the numeric
\* values of its own documents, nulls when it has none; the six documents of
\* the example give [0.9], [1.8] and [null].
C24_GroupsAreIndependent ==
    /\ [][\A j \in GroupKeys :
              (j # last'.arg.key /\ acc.of[j] # 0) =>
                  /\ acc'.of[j] = acc.of[j]
                  /\ InstanceOf(acc', j) = InstanceOf(acc, j)]_vars
    /\ [](last.op = "getValue" =>
              LET k == last.arg.key
              IN  /\ last.value =
                         getValue(IngestAll(create(GroupFractions, GroupMethod),
                                            hist.taken[k]),
                                  FALSE)
                  /\ hist.taken[k] = <<>> => last.value = <<BSONNULL>>
                  /\ hist.seen = 1..Len(GroupDocs) =>
                         last.value = CASE k = 0 -> <<Double(9)>>
                                        [] k = 1 -> <<Double(18)>>
                                        [] OTHER -> <<BSONNULL>>)

C24_Witness ==
    /\ hist.seen = 1..Len(GroupDocs)
    /\ last.op = "getValue"
    /\ last.arg.key = 1
    /\ last.value = <<Double(18)>>
    /\ InstanceOf(acc, 0).algo.buf = <<Scale, 0>>
    /\ InstanceOf(acc, 2).algo.buf = <<>>

\* a percentile accumulator with fractions [0.5] in the state of acc
PercentileTwin ==
    [percentiles |-> <<Scale \div 2>>,
     algo |-> acc.algo,
     method |-> acc.method,
     memUsageTracker |-> acc.memUsageTracker]

\* C25: the merge-phase finalize of a median returns what a percentile
\* accumulator with fractions [0.5], the same method and the same history
\* returns: that of the percentile accumulator in the same state, which,
\* while nothing was merged, is one that ingested the same values.
C25_MedianMergePhaseDefers ==
    (last.op = "getValue" /\ last.toBeMerged) =>
        /\ last.status = "ok"
        /\ acc = PercentileTwin
        /\ last.value = getValue(PercentileTwin, TRUE)
        /\ hist.merged = <<>> =>
               \E order \in MergeOrders(Len(hist.direct)) :
                   last.value =
                       getValue(
                           IngestAll(
                               AccumulatorPercentile(<<Scale \div 2>>,
                                                     acc.method, Some(Limit)),
                               [i \in 1..Len(hist.direct) |->
                                   hist.direct[order[i]]]),
                           TRUE)

C25_Witness ==
    /\ last.op = "getValue"
    /\ last.toBeMerged
    /\ acc.method = "discrete"
    /\ hist.merged = <<>>
    /\ last.value = <<Double(Scale), Double(0)>>

\* C26 as stated: while no value was incorporated, the accumulator does not
\* call computePercentiles.
C26_NoCallWithoutData ==
    (NonMergeFinalize /\ Count(acc.algo) = 0) =>
        \A i \in 1..Len(getValueCalls(acc, last.toBeMerged)) :
            getValueCalls(acc, last.toBeMerged)[i] # "computePercentiles"

\* C26: a non-merge finalize calls computePercentiles once, with or
\* without data; without data the algorithm returns no value and
\* formatFinalValue puts one null per fraction in its place.
C26_CallsThenSubstitutes ==
    NonMergeFinalize =>
        /\ getValueCalls(acc, last.toBeMerged) = <<"computePercentiles">>
        /\ Count(acc.algo) = 0 =>
               /\ computePercentiles(acc.algo, acc.percentiles) = <<>>
               /\ last.value = Nulls(Len(acc.percentiles))
        /\ Count(acc.algo) > 0 =>
               Len(computePercentiles(acc.algo, acc.percentiles))
                   = Len(acc.percentiles)

C26_Witness ==
    /\ NonMergeFinalize
    /\ Count(acc.algo) = 0
    /\ getValueCalls(acc, last.toBeMerged) = <<"computePercentiles">>
    /\ acc.percentiles = <<0, Scale, 0>>
    /\ last.value = <<BSONNULL, BSONNULL, BSONNULL>>

C28_FailureIsNotRolledBack ==
    /\ [](last.status = "ExceededMemoryLimit" =>
              /\ Usage > Limit
              /\ Usage = SizeofAccumulator + memUsageBytes(acc.algo)
              /\ Count(acc.algo) = TakenIn
              /\ Count(acc.algo) > 0)
    /\ [][Usage > Limit =>
              /\ \A v \in NonNumericInputs :
                     Ingest(v) => (last'.status = "ok" /\ acc' = acc)
              /\ \A toBeMerged \in BOOLEAN :
                     Finalize(toBeMerged) =>
                         /\ last'.status = "ok"
                         /\ acc' = acc
                         /\ last'.value = getValue(acc, toBeMerged)
              /\ last'.op # "reset" =>
                     acc'.memUsageTracker.currentMemoryBytes
                         > acc'.memUsageTracker.maxAllowedMemoryUsageBytes
              /\ Reset =>
                     acc'.memUsageTracker.currentMemoryBytes
                         <= acc'.memUsageTracker.maxAllowedMemoryUsageBytes]_vars

C28_Witness ==
    /\ last.op = "getValue"
    /\ ~last.toBeMerged
    /\ last.status = "ok"
    /\ Usage > Limit
    /\ acc.method = "discrete"
    /\ last.value = <<Double(0), Double(Scale), Double(0)>>

=============================================================================
